---- MODULE Spec2Model ----
(***************************************************************************)
(* Model of hotspot's perf recording session (src/perfrecord.cpp) and of   *)
(* the privileged elevation helper (src/authhelper.cpp).                   *)
(*                                                                         *)
(* The control thread of PerfRecord runs one handler at a time; every      *)
(* action below is one public call or one signal handler, run to its end.  *)
(* Profiler children, the helper and the elevation script are separate OS  *)
(* processes whose steps interleave with the handlers.                     *)
(***************************************************************************)
EXTENDS Integers, Sequences, FiniteSets, TLC

(* ---------------------------------------------------------------------- *)
(* Bounds of the exploration                                              *)
(* ---------------------------------------------------------------------- *)
\* recording requests that reach the elevation-aware start routine
MaxReq == 2
\* of these, the requests that start an elevation
MaxElevated == 1
\* write() calls of the elevation scripts on their output files, all together
MaxWrites == 2

(* ---------------------------------------------------------------------- *)
(* Program constants                                                      *)
(* ---------------------------------------------------------------------- *)
EXIT_SUCCESS == 0
SIGTERM == 15
SIGKILL == 9
SuccessMarker == "\nprivileges elevated!\n"
ErrorMarker == "Error:"
PollInterval == 250

(* ---------------------------------------------------------------------- *)
(* String helpers (QString / QByteArray operations used by the code)      *)
(* ---------------------------------------------------------------------- *)
\* QByteArray::contains: needle occurs as a substring of hay
Contains(hay, needle) ==
    \E i \in 1..(Len(hay) - Len(needle) + 1) :
        SubSeq(hay, i, i + Len(needle) - 1) = needle

RECURSIVE Join(_, _)
\* QStringList::join
Join(list, sep) ==
    IF Len(list) = 0 THEN ""
    ELSE IF Len(list) = 1 THEN list[1]
    ELSE list[1] \o sep \o Join(Tail(list), sep)

Digit(d) == SubSeq("0123456789", d + 1, d + 1)

RECURSIVE Number(_)
\* QString::arg(int) for a non-negative exit code
Number(n) == IF n < 10 THEN Digit(n) ELSE Number(n \div 10) \o Digit(n % 10)

RECURSIVE LastSlash(_, _)
\* index of the last '/' among the first i characters of path, 0 if none
LastSlash(path, i) ==
    IF i = 0 THEN 0
    ELSE IF SubSeq(path, i, i) = "/" THEN i
    ELSE LastSlash(path, i - 1)

\* QFileInfo(outputPath).dir().path()
FolderPath(path) ==
    LET k == LastSlash(path, Len(path))
    IN  IF k = 0 THEN "."
        ELSE IF k = 1 THEN "/"
        ELSE SubSeq(path, 1, k - 1)

(* ---------------------------------------------------------------------- *)
(* The environment: file system, request inputs, process outcomes         *)
(* ---------------------------------------------------------------------- *)
\* output paths a caller may pass
OutputPaths == {"/tmp/a.data", "/tmp/b.data", "/tmp/out.data", "/nodir/c.data",
                "/etc/passwd/d.data", "/ro/e.data"}

\* QFileInfo(folderPath): exists(), isDir(), isWritable()
FolderExists(folder) == folder \in {"/tmp", "/etc/passwd", "/ro"}
FolderIsDir(folder) == folder \in {"/tmp", "/ro"}
FolderIsWritable(folder) == folder = "/tmp"

FolderOk(folder) ==
    FolderExists(folder) /\ FolderIsDir(folder) /\ FolderIsWritable(folder)

\* executables a caller may name
ExePaths == {"ls", "nonexistent_binary", "/tmp", "/tmp/notes.txt"}

\* QStandardPaths::findExecutable, "" when the search path has no match
FindExecutable(exe) == IF exe = "ls" THEN "/usr/bin/ls" ELSE ""

\* QFileInfo(exe): exists(), isFile(), isExecutable(), absoluteFilePath()
ExeExists(exe) == exe \in {"/usr/bin/ls", "/tmp", "/tmp/notes.txt"}
ExeIsFile(exe) == exe \in {"/usr/bin/ls", "/tmp/notes.txt"}
ExeIsExecutable(exe) == exe \in {"/usr/bin/ls", "/tmp"}
AbsoluteFilePath(exe) == exe

PerfOptionLists == {<<"-F", "99">>}
PidLists == {<<>>, <<"1234">>, <<"7", "8">>}
ExeOptionLists == {<<"-l">>}
WorkingDirectories == {"/home"}

\* the requests of the session explored by Spec: <<elevatePrivileges, pids>>,
\* <<elevatePrivileges, exePath>>; its recordings are recordSystem calls and
\* record calls for PIDs without elevation
SessionPaths == {"/tmp/a.data", "/tmp/b.data", "/nodir/c.data"}
SessionPidRequests == {<<FALSE, <<>>>>, <<TRUE, <<>>>>, <<FALSE, <<"7", "8">>>>}
SessionExeRequests == {<<FALSE, "nonexistent_binary">>, <<TRUE, "/tmp">>,
                       <<TRUE, "/tmp/notes.txt">>}

\* every combination of the inputs above
AllPidRequests == BOOLEAN \X PidLists
AllExeRequests == BOOLEAN \X ExePaths

\* what one write() of the elevation script appends to its output file
ScriptChunks == {"\nprivileges elevated!\n", "\nprivileges ", "elevated!\n",
                 "Error: denied\n"}

\* what a profiler child writes to its merged output channel
PerfText == "[ perf record ]\n"

\* how a profiler child can end by itself: exit(0), exit(1), death by SIGTERM
\* (QProcess reports the signal number as exit code and the exit as a crash)
ExitOutcomes == {[code |-> EXIT_SUCCESS, crashed |-> FALSE],
                 [code |-> 1, crashed |-> FALSE],
                 [code |-> SIGTERM, crashed |-> TRUE]}

\* how a child ends that kill() hit
KillOutcome == [code |-> SIGKILL, crashed |-> TRUE]

(* ---------------------------------------------------------------------- *)
(* State                                                                  *)
(* ---------------------------------------------------------------------- *)
VARIABLES
    m_perfRecordProcess,  \* index into procs of the current QProcess, 0 = null
    m_outputPath,         \* output path of the last request that passed validation
    m_userTerminated,     \* set by stopRecording, cleared by the finished handler
    procs,                \* every QProcess object the session created, in order
    reqs,                 \* every request that reached the elevation-aware start
    files,                \* output path -> "absent" | "empty" | "data"
    effects               \* trace of the last handler, in order: the finished signal it
                          \* received, the QProcess calls it made, the signals it emitted

vars == <<m_perfRecordProcess, m_outputPath, m_userTerminated, procs, reqs,
          files, effects>>

\* one emitted signal or one call on a QProcess
Effect(sig, text, args) == [sig |-> sig, text |-> text, args |-> args]
Failed(msg) == Effect("recordingFailed", msg, <<>>)
Finished(path) == Effect("recordingFinished", path, <<>>)
Output(text) == Effect("recordingOutput", text, <<>>)
Started(binary, args) == Effect("recordingStarted", binary, args)
ProcessStart(binary, args) == Effect("QProcess::start", binary, args)
ProcessKill == Effect("QProcess::kill", "", <<>>)
ProcessTerminate == Effect("QProcess::terminate", "", <<>>)
ProcessFinished(exitCode) == Effect("QProcess::finished", Number(exitCode), <<>>)

\* a QProcess object right after its construction:
\*   st      "Unstarted" | "Starting" | "Running" | "NotRunning" | "Deleted"
\*   killed  SIGKILL has ended the child, QProcess has not noticed yet
NewProcess(r) ==
    [req |-> r, st |-> "Unstarted", killed |-> FALSE, args |-> <<>>, wd |-> "",
     errorString |-> "Unknown error"]

\* the child of process object proc exists and runs
Live(proc) == proc.st \in {"Starting", "Running"} /\ ~proc.killed

\* the lambda captures and the elevation channel of one request:
\*   script    "none" (no elevation) | "pending" (job started, elevate not yet
\*             entered) | "starting" | "running" | "failed" | "exited"
\*   armed     the helper's errorOccurred connection exists
\*   watchdog  the helper's single-shot timer has fired
\*   timer     interval of readTimer, 0 while it is not running
\*   content   all bytes the script has written to the output file
\*   unread    bytes of the output file past the read position
\*   writes    write() calls the script has made
\*   steps     progress steps the percentChanged lambda has handled
NewRequest(elevate, perfOptions, outputPath, recordOptions, workingDirectory) ==
    [elevate |-> elevate, perfOptions |-> perfOptions, outputPath |-> outputPath,
     recordOptions |-> recordOptions, workingDirectory |-> workingDirectory,
     script |-> IF elevate THEN "pending" ELSE "none",
     armed |-> FALSE, watchdog |-> FALSE, timer |-> 0, content |-> "",
     unread |-> "", writes |-> 0,
     steps |-> {}]

Init ==
    /\ m_perfRecordProcess = 0
    /\ m_outputPath = ""
    /\ m_userTerminated = FALSE
    /\ procs = <<>>
    /\ reqs = <<>>
    /\ files = [p \in OutputPaths |-> "absent"]
    /\ effects = <<>>

(* ---------------------------------------------------------------------- *)
(* PerfRecord::startRecording(perfOptions, outputPath, recordOptions,     *)
(*                            workingDirectory)                           *)
(* ---------------------------------------------------------------------- *)
\* a QProcess object that deleteLater() has destroyed
Deleted(proc) == [NewProcess(proc.req) EXCEPT !.st = "Deleted"]

\* kill() and deleteLater() of the process that is being replaced: SIGKILL to
\* the child, if there is one; the object lives until QProcess has reported
\* the child's end, which its destructor waits for
KillForgotten(ps, p) == ps

Kill(ps, p) ==
    IF Live(ps[p]) THEN [ps EXCEPT ![p].killed = TRUE]
    ELSE [ps EXCEPT ![p] = Deleted(@)]

PerfCommandTargetFirst(perfOptions, outputPath, recordOptions) ==
    <<"record", "-o", outputPath>> \o recordOptions \o perfOptions

PerfCommand(perfOptions, outputPath, recordOptions) ==
    <<"record", "-o", outputPath>> \o perfOptions \o recordOptions

\* the first failing check of the output folder, "" when all pass
FolderError(folder) ==
    IF ~FolderExists(folder) THEN "Folder '" \o folder \o "' does not exist."
    ELSE IF ~FolderIsDir(folder) THEN "'" \o folder \o "' is not a folder."
    ELSE IF ~FolderIsWritable(folder) THEN "Folder '" \o folder \o "' is not writable."
    ELSE ""

\* the routine's result: process table, current process, output path and
\* the effects of the call
StartRecording(r, perfOptions, outputPath, recordOptions, workingDirectory) ==
    LET old == m_perfRecordProcess
        reset == IF old # 0 THEN Kill(procs, old) ELSE procs
        resetEffects == IF old # 0 THEN <<ProcessKill>> ELSE <<>>
        id == Len(procs) + 1
        folderPath == FolderPath(outputPath)
        error == FolderError(folderPath)
        perfCommand == PerfCommand(perfOptions, outputPath, recordOptions)
    IN  IF error # ""
        THEN [procs |-> Append(reset, NewProcess(r)),
              process |-> id,
              outputPath |-> m_outputPath,
              effects |-> resetEffects \o <<Failed(error)>>]
        ELSE [procs |-> Append(reset,
                          [NewProcess(r) EXCEPT !.st = "Starting",
                                                !.args = perfCommand,
                                                !.wd = workingDirectory]),
              process |-> id,
              outputPath |-> outputPath,
              effects |-> resetEffects \o <<ProcessStart("perf", perfCommand)>>]

(* ---------------------------------------------------------------------- *)
(* PerfRecord::startRecording(elevatePrivileges, ...)                     *)
(* ---------------------------------------------------------------------- *)
StartRecordingElevatedUnlocated(scriptFound, elevatePrivileges, perfOptions, outputPath, recordOptions, workingDirectory) ==
    IF elevatePrivileges
    THEN /\ Cardinality({r \in 1..Len(reqs) : reqs[r].elevate}) < MaxElevated
         /\ reqs' = Append(reqs, NewRequest(TRUE, perfOptions, outputPath,
                                            recordOptions, workingDirectory))
         /\ effects' = <<>>
         /\ UNCHANGED <<m_perfRecordProcess, m_outputPath, m_userTerminated,
                        procs, files>>
    ELSE LET r == Len(reqs) + 1
             s == StartRecording(r, perfOptions, outputPath, recordOptions,
                                 workingDirectory)
         IN  /\ reqs' = Append(reqs, NewRequest(FALSE, perfOptions, outputPath,
                                                recordOptions, workingDirectory))
             /\ procs' = s.procs
             /\ m_perfRecordProcess' = s.process
             /\ m_outputPath' = s.outputPath
             /\ effects' = s.effects
             /\ UNCHANGED <<m_userTerminated, files>>

\* scriptFound: whether Util::findLibexecBinary located the script
\* (the back quotes that the message has around the script's name cannot
\* be written in a string of this module and are left out)
StartRecordingElevated(scriptFound, elevatePrivileges, perfOptions, outputPath, recordOptions, workingDirectory) ==
    IF elevatePrivileges
    THEN IF ~scriptFound
         THEN /\ effects' = <<Failed("Failed to find elevate_perf_privileges.sh script.")>>
              /\ UNCHANGED <<m_perfRecordProcess, m_outputPath, m_userTerminated,
                             procs, reqs, files>>
         ELSE /\ Cardinality({r \in 1..Len(reqs) : reqs[r].elevate}) < MaxElevated
              /\ reqs' = Append(reqs, NewRequest(TRUE, perfOptions, outputPath,
                                                 recordOptions, workingDirectory))
              /\ effects' = <<>>
              /\ UNCHANGED <<m_perfRecordProcess, m_outputPath, m_userTerminated,
                             procs, files>>
    ELSE LET r == Len(reqs) + 1
             s == StartRecording(r, perfOptions, outputPath, recordOptions,
                                 workingDirectory)
         IN  /\ reqs' = Append(reqs, NewRequest(FALSE, perfOptions, outputPath,
                                                recordOptions, workingDirectory))
             /\ procs' = s.procs
             /\ m_perfRecordProcess' = s.process
             /\ m_outputPath' = s.outputPath
             /\ effects' = s.effects
             /\ UNCHANGED <<m_userTerminated, files>>

(* ---------------------------------------------------------------------- *)
(* Public operations                                                      *)
(* ---------------------------------------------------------------------- *)
RecordPidsUnchecked(scriptFound, perfOptions, outputPath, elevatePrivileges, pids) ==
    StartRecordingElevated(scriptFound, elevatePrivileges,
                           perfOptions \o <<"--pid", Join(pids, ",")>>,
                           outputPath, <<>>, "")

\* PerfRecord::record(perfOptions, outputPath, elevatePrivileges, pids)
RecordPids(scriptFound, perfOptions, outputPath, elevatePrivileges, pids) ==
    IF Len(pids) = 0
    THEN /\ effects' = <<Failed("Process does not exist.")>>
         /\ UNCHANGED <<m_perfRecordProcess, m_outputPath, m_userTerminated,
                        procs, reqs, files>>
    ELSE StartRecordingElevated(scriptFound, elevatePrivileges,
                                perfOptions \o <<"--pid", Join(pids, ",")>>,
                                outputPath, <<>>, "")

\* the first failing check of the executable, "" when all pass
ExeError(exePath, resolved) ==
    IF ~ExeExists(resolved) THEN "File '" \o exePath \o "' does not exist."
    ELSE IF ~ExeIsFile(resolved) THEN "'" \o exePath \o "' is not a file."
    ELSE IF ~ExeIsExecutable(resolved) THEN "File '" \o exePath \o "' is not executable."
    ELSE ""

\* PerfRecord::record(perfOptions, outputPath, elevatePrivileges, exePath,
\*                    exeOptions, workingDirectory)
RecordExe(scriptFound, perfOptions, outputPath, elevatePrivileges, exePath, exeOptions, workingDirectory) ==
    LET resolved == IF ExeExists(exePath) THEN exePath ELSE FindExecutable(exePath)
        error == ExeError(exePath, resolved)
    IN  IF error # ""
        THEN /\ effects' = <<Failed(error)>>
             /\ UNCHANGED <<m_perfRecordProcess, m_outputPath, m_userTerminated,
                            procs, reqs, files>>
        ELSE StartRecordingElevated(scriptFound, elevatePrivileges,
                                    perfOptions, outputPath,
                                    <<AbsoluteFilePath(resolved)>> \o exeOptions,
                                    workingDirectory)

\* PerfRecord::recordSystem(perfOptions, outputPath)
RecordSystem(scriptFound, perfOptions, outputPath) ==
    StartRecordingElevated(scriptFound, TRUE,
                           Append(perfOptions, "--all-cpus"), outputPath, <<>>, "")

StopRecordingForced ==
    /\ m_userTerminated' = TRUE
    /\ effects' = IF m_perfRecordProcess # 0 /\ Live(procs[m_perfRecordProcess])
                  THEN IF m_userTerminated THEN <<ProcessKill>> ELSE <<ProcessTerminate>>
                  ELSE <<>>
    /\ procs' = IF m_perfRecordProcess # 0 /\ m_userTerminated
                THEN Kill(procs, m_perfRecordProcess) ELSE procs
    /\ UNCHANGED <<m_perfRecordProcess, m_outputPath, reqs, files>>

StopRecordingUnmarked ==
    /\ effects' = IF m_perfRecordProcess # 0 /\ Live(procs[m_perfRecordProcess])
                  THEN <<ProcessTerminate>> ELSE <<>>
    /\ UNCHANGED <<m_perfRecordProcess, m_outputPath, m_userTerminated, procs,
                   reqs, files>>

\* PerfRecord::perfCommand(): the binary and arguments() of the current process
CurrentCommandLine ==
    IF m_perfRecordProcess # 0
    THEN "perf " \o Join(procs[m_perfRecordProcess].args, " ")
    ELSE ""

\* PerfRecord::stopRecording(); terminate() signals a child that exists
StopRecording ==
    /\ m_userTerminated' = TRUE
    /\ effects' = IF m_perfRecordProcess # 0 /\ Live(procs[m_perfRecordProcess])
                  THEN <<ProcessTerminate>> ELSE <<>>
    /\ UNCHANGED <<m_perfRecordProcess, m_outputPath, procs, reqs, files>>

(* ---------------------------------------------------------------------- *)
(* The percentChanged lambda of PerfRecord                                *)
(* ---------------------------------------------------------------------- *)
PercentChangedEager(req, step) ==
    LET handled == [req EXCEPT !.steps = @ \cup {step}, !.timer = PollInterval]
    IN  IF step = 1
        THEN [req |-> handled, effects |-> <<Failed("Failed to elevate privileges.")>>]
        ELSE [req |-> handled, effects |-> <<>>]

\* the request and the effects after the lambda ran for step
PercentChanged(req, step) ==
    LET handled == [req EXCEPT !.steps = @ \cup {step}]
    IN  IF step = 1
        THEN [req |-> handled, effects |-> <<Failed("Failed to elevate privileges.")>>]
        ELSE IF step = 2
        THEN [req |-> [handled EXCEPT !.timer = PollInterval], effects |-> <<>>]
        ELSE [req |-> handled, effects |-> <<>>]

(* ---------------------------------------------------------------------- *)
(* AuthHelper::elevate, run by the privileged helper for request r.       *)
(* KAuth relays progressStep(n) to the job's percentChanged signal; the   *)
(* relay is immediate here, so a helper step that reports progress also   *)
(* runs the lambda above.                                                 *)
(* ---------------------------------------------------------------------- *)
\* the errorOccurred lambda, as long as the watchdog has not disconnected it
ScriptErrorOccurred(req) ==
    IF req.armed THEN PercentChanged(req, 1) ELSE [req |-> req, effects |-> <<>>]

\* the started lambda
ScriptStarted(req) == PercentChanged(req, 2)

\* elevate up to loop.exec(): connections made, watchdog armed, script forked
HelperElevate(r) ==
    /\ reqs[r].script = "pending"
    /\ reqs' = [reqs EXCEPT ![r].script = "starting", ![r].armed = TRUE]
    /\ effects' = <<>>
    /\ UNCHANGED <<m_perfRecordProcess, m_outputPath, m_userTerminated, procs, files>>

\* the script's startup notification: started, or errorOccurred(FailedToStart),
\* after which QProcess emits no finished signal
ScriptStartup(r, ok) ==
    /\ reqs[r].script = "starting"
    /\ LET s == IF ok THEN ScriptStarted([reqs[r] EXCEPT !.script = "running"])
                ELSE ScriptErrorOccurred([reqs[r] EXCEPT !.script = "failed"])
       IN  /\ reqs' = [reqs EXCEPT ![r] = s.req]
           /\ effects' = s.effects
    /\ UNCHANGED <<m_perfRecordProcess, m_outputPath, m_userTerminated, procs, files>>

RECURSIVE TotalWrites(_)
TotalWrites(rs) == IF rs = <<>> THEN 0 ELSE Head(rs).writes + TotalWrites(Tail(rs))

\* the running script appends to the temporary output file
ScriptWrite(r, chunk) ==
    /\ reqs[r].script = "running"
    /\ TotalWrites(reqs) < MaxWrites
    /\ reqs' = [reqs EXCEPT ![r].content = @ \o chunk, ![r].unread = @ \o chunk,
                            ![r].writes = @ + 1]
    /\ effects' = <<>>
    /\ UNCHANGED <<m_perfRecordProcess, m_outputPath, m_userTerminated, procs, files>>

\* the finished lambda quits the loop: loop.exec() and elevate return
HelperReturned(req) == req.script = "exited"

\* the script ends by itself before the watchdog fires: errorOccurred(Crashed)
\* when it crashed, then finished
ScriptExit(r, crashed) ==
    /\ reqs[r].script = "running"
    /\ ~reqs[r].watchdog
    /\ LET s == IF crashed THEN ScriptErrorOccurred(reqs[r])
                ELSE [req |-> reqs[r], effects |-> <<>>]
       IN  /\ reqs' = [reqs EXCEPT ![r] = [s.req EXCEPT !.script = "exited"]]
           /\ effects' = s.effects
    /\ UNCHANGED <<m_perfRecordProcess, m_outputPath, m_userTerminated, procs, files>>

WatchdogArmed(r) ==
    /\ reqs[r].script \in {"starting", "running", "failed", "exited"}
    /\ ~reqs[r].watchdog
    /\ reqs' = [reqs EXCEPT ![r].watchdog = TRUE]
    /\ effects' = <<>>
    /\ UNCHANGED <<m_perfRecordProcess, m_outputPath, m_userTerminated, procs, files>>

\* the single-shot timer: disconnect errorOccurred, process->terminate()
Watchdog(r) ==
    /\ reqs[r].script \in {"starting", "running", "failed", "exited"}
    /\ ~reqs[r].watchdog
    /\ reqs' = [reqs EXCEPT ![r].watchdog = TRUE, ![r].armed = FALSE]
    /\ effects' = <<>>
    /\ UNCHANGED <<m_perfRecordProcess, m_outputPath, m_userTerminated, procs, files>>

\* the script ends after the watchdog's SIGTERM: errorOccurred(Crashed), finished
ScriptTerminated(r) ==
    /\ reqs[r].script = "running"
    /\ reqs[r].watchdog
    /\ LET s == ScriptErrorOccurred(reqs[r])
       IN  /\ reqs' = [reqs EXCEPT ![r] = [s.req EXCEPT !.script = "exited"]]
           /\ effects' = s.effects
    /\ UNCHANGED <<m_perfRecordProcess, m_outputPath, m_userTerminated, procs, files>>

(* ---------------------------------------------------------------------- *)
(* readSlot, run by a timeout of readTimer                                *)
(* ---------------------------------------------------------------------- *)
ReadSlot(r) ==
    /\ reqs[r].timer # 0
    /\ LET data == reqs[r].unread
           req == [reqs[r] EXCEPT !.unread = ""]
       IN  IF data = ""
           THEN /\ effects' = <<>>
                /\ UNCHANGED <<m_perfRecordProcess, m_outputPath, m_userTerminated,
                               procs, reqs, files>>
           ELSE IF Contains(data, SuccessMarker)
           THEN LET s == StartRecording(r, req.perfOptions, req.outputPath,
                                        req.recordOptions, req.workingDirectory)
                IN  /\ reqs' = [reqs EXCEPT ![r] = req]
                    /\ procs' = s.procs
                    /\ m_perfRecordProcess' = s.process
                    /\ m_outputPath' = s.outputPath
                    /\ effects' = <<Output(data), Output("\n")>> \o s.effects
                    /\ UNCHANGED <<m_userTerminated, files>>
           ELSE IF Contains(data, ErrorMarker)
           THEN /\ reqs' = [reqs EXCEPT ![r] = req]
                /\ effects' = <<Failed("Failed to elevate privileges: " \o data)>>
                /\ UNCHANGED <<m_perfRecordProcess, m_outputPath, m_userTerminated,
                               procs, files>>
           ELSE /\ reqs' = [reqs EXCEPT ![r] = req]
                /\ effects' = <<Output(data)>>
                /\ UNCHANGED <<m_perfRecordProcess, m_outputPath, m_userTerminated,
                               procs, files>>

(* ---------------------------------------------------------------------- *)
(* The profiler child and the lambdas connected to its QProcess           *)
(* ---------------------------------------------------------------------- *)
\* the errorOccurred lambda: errorString() of the current process
ErrorOccurred(ps) ==
    IF ~m_userTerminated THEN <<Failed(ps[m_perfRecordProcess].errorString)>> ELSE <<>>

\* QFileInfo(m_outputPath): exists(), size() > 0
OutputExists == m_outputPath \in DOMAIN files /\ files[m_outputPath] # "absent"
OutputHasData == m_outputPath \in DOMAIN files /\ files[m_outputPath] = "data"

RecordingSucceededWithoutFile(exitCode) ==
    \/ exitCode = EXIT_SUCCESS
    \/ (exitCode = SIGTERM /\ m_userTerminated)
    \/ OutputHasData

\* the condition of the finished lambda
RecordingSucceeded(exitCode) ==
    /\ \/ exitCode = EXIT_SUCCESS
       \/ (exitCode = SIGTERM /\ m_userTerminated)
       \/ OutputHasData
    /\ OutputExists

\* the finished lambda; it also clears m_userTerminated
FinishedHandler(exitCode) ==
    IF RecordingSucceeded(exitCode)
    THEN <<Finished(m_outputPath)>>
    ELSE <<Failed("Failed to record perf data, error code " \o Number(exitCode) \o ".")>>

\* the child's startup notification: the started lambda, or
\* errorOccurred(FailedToStart), after which QProcess emits no finished signal
ProcStartup(p, ok) ==
    /\ procs[p].st = "Starting"
    /\ LET ps == IF ok THEN [procs EXCEPT ![p].st = "Running"]
                 ELSE [procs EXCEPT ![p].st = "NotRunning", ![p].killed = FALSE,
                                    ![p].errorString = "Process failed to start"]
       IN  /\ procs' = IF ok \/ p = m_perfRecordProcess THEN ps
                       ELSE [ps EXCEPT ![p] = Deleted(@)]
           /\ effects' = IF ok THEN <<Started("perf", procs[p].args)>>
                         ELSE ErrorOccurred(ps)
    /\ UNCHANGED <<m_perfRecordProcess, m_outputPath, m_userTerminated, reqs, files>>

\* QProcess notices that the child ended: errorOccurred(Crashed) when a
\* signal ended it, then finished(exitCode, exitStatus)
ProcessDied(p, outcome) ==
    LET ps == [procs EXCEPT ![p].st = "NotRunning", ![p].killed = FALSE,
                            ![p].errorString =
                                IF outcome.crashed THEN "Process crashed" ELSE @]
    IN  /\ procs' = IF p = m_perfRecordProcess THEN ps
                    ELSE [ps EXCEPT ![p] = Deleted(@)]
        /\ effects' = (IF outcome.crashed THEN ErrorOccurred(ps) ELSE <<>>)
                      \o <<ProcessFinished(outcome.code)>>
                      \o FinishedHandler(outcome.code)
        /\ m_userTerminated' = FALSE
        /\ UNCHANGED <<m_perfRecordProcess, m_outputPath, reqs, files>>

\* the running child ends by itself
ProcFinished(p, outcome) ==
    /\ procs[p].st = "Running"
    /\ ~procs[p].killed
    /\ ProcessDied(p, outcome)

\* the child that kill() hit is reaped
ProcKilled(p) ==
    /\ procs[p].st = "Running"
    /\ procs[p].killed
    /\ ProcessDied(p, KillOutcome)

\* the readyRead lambda: readAll() of the current process
ProcReadyRead(p) ==
    /\ procs[p].st = "Running"
    /\ effects' = <<Output(IF p = m_perfRecordProcess THEN PerfText ELSE "")>>
    /\ UNCHANGED <<m_perfRecordProcess, m_outputPath, m_userTerminated, procs,
                   reqs, files>>

\* the child creates its output file (args[3]), then writes samples to it
ProcWriteFile(p) ==
    /\ procs[p].st = "Running"
    /\ ~procs[p].killed
    /\ files[procs[p].args[3]] # "data"
    /\ files' = [files EXCEPT ![procs[p].args[3]] =
                   IF @ = "absent" THEN "empty" ELSE "data"]
    /\ effects' = <<>>
    /\ UNCHANGED <<m_perfRecordProcess, m_outputPath, m_userTerminated, procs, reqs>>

(* ---------------------------------------------------------------------- *)
(* Specification                                                          *)
(* ---------------------------------------------------------------------- *)
\* the public record calls with inputs from the given menus
DoRecordPids(paths, pidRequests) ==
    /\ Len(reqs) < MaxReq
    /\ \E scriptFound \in BOOLEAN, perfOptions \in PerfOptionLists,
          outputPath \in paths, q \in pidRequests :
          RecordPids(scriptFound, perfOptions, outputPath, q[1], q[2])

DoRecordExe(paths, exeRequests) ==
    /\ Len(reqs) < MaxReq
    /\ \E scriptFound \in BOOLEAN, perfOptions \in PerfOptionLists,
          outputPath \in paths, q \in exeRequests,
          exeOptions \in ExeOptionLists, workingDirectory \in WorkingDirectories :
          RecordExe(scriptFound, perfOptions, outputPath, q[1], q[2],
                    exeOptions, workingDirectory)

DoRecordSystem(paths) ==
    /\ Len(reqs) < MaxReq
    /\ \E scriptFound \in BOOLEAN, perfOptions \in PerfOptionLists,
          outputPath \in paths :
          RecordSystem(scriptFound, perfOptions, outputPath)

DoHelperElevate == \E r \in 1..Len(reqs) : HelperElevate(r)
DoScriptStartup == \E r \in 1..Len(reqs), ok \in BOOLEAN : ScriptStartup(r, ok)
DoScriptWrite == \E r \in 1..Len(reqs), chunk \in ScriptChunks : ScriptWrite(r, chunk)
DoScriptExit == \E r \in 1..Len(reqs), crashed \in BOOLEAN : ScriptExit(r, crashed)
DoWatchdog == \E r \in 1..Len(reqs) : Watchdog(r)
DoScriptTerminated == \E r \in 1..Len(reqs) : ScriptTerminated(r)
DoReadSlot == \E r \in 1..Len(reqs) : ReadSlot(r)
DoProcStartup == \E p \in 1..Len(procs), ok \in BOOLEAN : ProcStartup(p, ok)
DoProcFinished ==
    \E p \in 1..Len(procs), outcome \in ExitOutcomes : ProcFinished(p, outcome)
DoProcKilled == \E p \in 1..Len(procs) : ProcKilled(p)
DoProcReadyRead == \E p \in 1..Len(procs) : ProcReadyRead(p)
DoProcWriteFile == \E p \in 1..Len(procs) : ProcWriteFile(p)

\* the elevation helper, its script and the polling of the output file
Elevation ==
    \/ DoHelperElevate
    \/ DoScriptStartup
    \/ DoScriptWrite
    \/ DoScriptExit
    \/ DoWatchdog
    \/ DoScriptTerminated
    \/ DoReadSlot

\* the profiler children
Profiler ==
    \/ DoProcStartup
    \/ DoProcFinished
    \/ DoProcKilled
    \/ DoProcReadyRead
    \/ DoProcWriteFile

Next ==
    \/ DoRecordPids(SessionPaths, SessionPidRequests)
    \/ DoRecordExe(SessionPaths, SessionExeRequests)
    \/ DoRecordSystem(SessionPaths)
    \/ StopRecording
    \/ Elevation
    \/ Profiler

Spec == Init /\ [][Next]_vars

\* a session that serves one request, drawn from every combination of the inputs
NextSingle ==
    \/ Len(reqs) = 0 /\ DoRecordPids(OutputPaths, AllPidRequests)
    \/ Len(reqs) = 0 /\ DoRecordExe(OutputPaths, AllExeRequests)
    \/ Len(reqs) = 0 /\ DoRecordSystem(OutputPaths)
    \/ StopRecording
    \/ Elevation
    \/ Profiler

SingleSpec == Init /\ [][NextSingle]_vars

\* what the event loops and the kernel guarantee: a started job reaches the
\* helper, a forked script reports its startup, the single-shot timer fires,
\* and a script that got SIGTERM ends
FairSingleSpec ==
    /\ SingleSpec
    /\ WF_vars(DoHelperElevate)
    /\ WF_vars(DoScriptStartup)
    /\ WF_vars(DoWatchdog)
    /\ WF_vars(DoScriptTerminated)

(* ---------------------------------------------------------------------- *)
(* Properties                                                             *)
(* ---------------------------------------------------------------------- *)
Procs == 1..Len(procs)
Reqs == 1..Len(reqs)

HasEffect(trace, sig) == \E i \in 1..Len(trace) : trace[i].sig = sig
IndexOf(trace, sig) == CHOOSE i \in 1..Len(trace) : trace[i].sig = sig

\* C1: at most one profiler child is alive at any instant, and a call of the
\* start routine that spawns a child has killed the previous process first.
C1_AtMostOneLiveChild ==
    /\ \A p, q \in Procs : Live(procs[p]) /\ Live(procs[q]) => p = q
    /\ \A p \in Procs : Live(procs[p]) => p = m_perfRecordProcess
    /\ HasEffect(effects, "QProcess::kill") /\ HasEffect(effects, "QProcess::start")
         => IndexOf(effects, "QProcess::kill") < IndexOf(effects, "QProcess::start")

\* a new child runs while the child it replaced, killed, is not yet reaped
C1_Witness ==
    /\ m_perfRecordProcess # 0
    /\ Live(procs[m_perfRecordProcess])
    /\ \E p \in Procs : procs[p].killed /\ procs[p].st = "Running"
    /\ HasEffect(effects, "QProcess::kill")
    /\ HasEffect(effects, "QProcess::start")

\* a profiler child was spawned for request r: the start routine ran for it
\* and the folder of its output path passed the validation
Spawned(r) ==
    /\ FolderOk(FolderPath(reqs[r].outputPath))
    /\ \E p \in Procs : procs[p].req = r

\* C2: when a poll of an elevated request reads content with the success
\* marker, the profiler is started with the request's flags, output path,
\* target options and working directory, the elevation output is emitted
\* before the start, and the profiler was not started for this request before.
C2_ProfilerStartedExactlyOnce ==
    [][\A r \in Reqs :
          /\ reqs[r].elevate
          /\ FolderOk(FolderPath(reqs[r].outputPath))
          /\ Contains(reqs[r].unread, SuccessMarker)
          /\ ReadSlot(r)
          => /\ ~Spawned(r)
             /\ effects'[Len(effects')] =
                    ProcessStart("perf", PerfCommand(reqs[r].perfOptions,
                                                     reqs[r].outputPath,
                                                     reqs[r].recordOptions))
             /\ \E i \in 1..(Len(effects') - 1) : effects'[i] = Output(reqs[r].unread)
             /\ procs'[Len(procs')].wd = reqs[r].workingDirectory
             /\ Cardinality({i \in 1..Len(effects') :
                                effects'[i].sig = "QProcess::start"}) = 1
      ]_vars

\* C3: when progress step 1 is handled for a request, a failure event is
\* emitted, and no profiler child exists or is spawned later for that request.
C3_Step1NeverSpawns ==
    [][\A r \in Reqs :
          /\ 1 \in reqs'[r].steps /\ 1 \notin reqs[r].steps
               => HasEffect(effects', "recordingFailed")
          /\ 1 \in reqs'[r].steps => ~Spawned(r)'
      ]_vars

\* C4: the elevate call of the request returns: once the helper has forked
\* the script and waits in its event loop, the loop eventually quits.
C4_ElevateReturns ==
    (Len(reqs) > 0 /\ reqs[1].script = "starting")
        ~> (Len(reqs) > 0 /\ HelperReturned(reqs[1]))

\* the exit of process p with the given outcome is handled in this step
Exited(p, outcome) ==
    \/ ProcFinished(p, outcome)
    \/ outcome = KillOutcome /\ ProcKilled(p)

\* C5: when the exit of a profiler child with exit code c is handled, finished
\* with the stored output path is emitted if and only if the output file exists
\* and (c is the success code, or c is the terminate-signal value and the
\* user-stop flag is set, or the file has data); otherwise failed is emitted
\* with c in its message. For the current child the stored output path is the
\* one the child was started with.
C5_FinishedIffCondition ==
    [][\A p \in Procs, outcome \in ExitOutcomes \cup {KillOutcome} :
          Exited(p, outcome)
          => LET c == outcome.code
                 exists == files[m_outputPath] \in {"empty", "data"}
                 nonEmpty == files[m_outputPath] = "data"
                 success == exists /\ \/ c = EXIT_SUCCESS
                                      \/ c = SIGTERM /\ m_userTerminated
                                      \/ nonEmpty
                 last == effects'[Len(effects')]
             IN  /\ p = m_perfRecordProcess => m_outputPath = procs[p].args[3]
                 /\ HasEffect(effects', "recordingFinished") <=> success
                 /\ success => last = Finished(m_outputPath)
                 /\ ~success => /\ last.sig = "recordingFailed"
                                /\ Contains(last.text, "error code " \o Number(c))
      ]_vars

\* an exit with code 1 was reported as finished because the file has data
C5_Witness ==
    /\ effects = <<ProcessFinished(1), Finished(m_outputPath)>>
    /\ files[m_outputPath] = "data"

\* the child the session holds dies by SIGTERM
Terminated(p) ==
    /\ p = m_perfRecordProcess
    /\ ProcFinished(p, [code |-> SIGTERM, crashed |-> TRUE])

PublicRecordCall ==
    \/ DoRecordPids(SessionPaths, SessionPidRequests)
    \/ DoRecordExe(SessionPaths, SessionExeRequests)
    \/ DoRecordSystem(SessionPaths)

\* C7: a public recording operation that emits failed leaves the session as
\* it was: a child that was running is still running and still the current
\* process, the stored output path and the user-stop flag are unchanged.
C7_FailedValidationChangesNothing ==
    [][PublicRecordCall /\ HasEffect(effects', "recordingFailed")
       => /\ m_perfRecordProcess # 0 /\ Live(procs[m_perfRecordProcess])
               => /\ m_perfRecordProcess' = m_perfRecordProcess
                  /\ Live(procs'[m_perfRecordProcess])
          /\ UNCHANGED <<m_outputPath, m_userTerminated>>
      ]_vars

\* C8: a request whose output folder fails the validation has no elevation:
\* the helper action was not started for it and its output file is not polled.
C8_ValidatedBeforeElevation ==
    \A r \in Reqs :
        FolderError(FolderPath(reqs[r].outputPath)) # ""
        => reqs[r].script = "none" /\ reqs[r].timer = 0

\* C9: a record request that reaches the start routine with an output path
\* whose folder fails the validation emits, in the call, a failure whose
\* message names the folder; no profiler child is spawned for such a request.
C9_BadFolderFailsNamingFolder ==
    [][/\ Len(reqs') > Len(reqs)
          => LET folder == FolderPath(reqs'[Len(reqs')].outputPath)
             IN  FolderError(folder) # ""
                 => \E i \in 1..Len(effects') :
                       /\ effects'[i].sig = "recordingFailed"
                       /\ Contains(effects'[i].text, folder)
       /\ \A p \in 1..Len(procs') :
             FolderError(FolderPath(reqs'[procs'[p].req].outputPath)) # ""
             => procs'[p].st \in {"Unstarted", "Deleted"}
      ]_vars

\* C10: record with an empty PID list emits a failure and creates nothing:
\* no process object, no request to the start routine or to the elevation
\* helper, whatever the elevate flag is; the session keeps its state.
C10_EmptyPidListFails ==
    [][\A scriptFound \in BOOLEAN, perfOptions \in PerfOptionLists,
          outputPath \in SessionPaths, elevatePrivileges \in BOOLEAN :
          RecordPids(scriptFound, perfOptions, outputPath, elevatePrivileges, <<>>)
          => /\ effects' = <<Failed("Process does not exist.")>>
             /\ UNCHANGED <<procs, reqs, m_perfRecordProcess, m_outputPath,
                            m_userTerminated>>
      ]_vars

\* the call with an empty PID list failed while a recording runs
C10_Witness ==
    /\ effects = <<Failed("Process does not exist.")>>
    /\ m_perfRecordProcess # 0
    /\ Live(procs[m_perfRecordProcess])

\* the failures of a handler's trace that the errorOccurred lambda emitted
\* (the finished lambda's failure carries the exit code)
ProcessErrorFailures(trace) ==
    SelectSeq(trace, LAMBDA e : e.sig = "recordingFailed"
                                /\ ~Contains(e.text, "error code"))

\* C11: when the current profiler process reports a process error (failed
\* start, crash) and no stop was requested for its recording - the user-stop
\* flag is unset, or the process was started by the handler that ran last -
\* failed is emitted with the error message of that process; when the flag is
\* set by a stop during the recording, the process error emits no failure.
C11_ProcessErrorReported ==
    [][\A p \in Procs :
          /\ p = m_perfRecordProcess
          /\ \/ ProcStartup(p, FALSE)
             \/ \E outcome \in ExitOutcomes : outcome.crashed /\ ProcFinished(p, outcome)
          => IF ~m_userTerminated \/ HasEffect(effects, "QProcess::start")
             THEN ProcessErrorFailures(effects') = <<Failed(procs'[p].errorString)>>
             ELSE ProcessErrorFailures(effects') = <<>>
      ]_vars

\* what a call of stopRecording does to the child in the current state
StopSignals ==
    IF m_perfRecordProcess # 0 /\ Live(procs[m_perfRecordProcess])
    THEN <<ProcessTerminate>> ELSE <<>>

\* C12: stopRecording sets the user-stop flag, sends SIGTERM to a live child
\* and nothing else, never kill(), and changes nothing else of the session;
\* called in a state that a call of stopRecording has left, it leaves that
\* state as it is, so that two calls lead where one call leads.
C12_StopIdempotent ==
    [][StopRecording
       => /\ m_userTerminated'
          /\ effects' = StopSignals
          /\ ~HasEffect(effects', "QProcess::kill")
          /\ UNCHANGED <<m_perfRecordProcess, m_outputPath, procs, reqs, files>>
          /\ m_userTerminated /\ effects = StopSignals => UNCHANGED vars
      ]_vars

\* a stop has signalled the running child, whose output file has data
C12_Witness ==
    /\ m_userTerminated
    /\ effects = <<ProcessTerminate>>
    /\ m_perfRecordProcess # 0
    /\ procs[m_perfRecordProcess].st = "Running"
    /\ files[m_outputPath] = "data"

\* the PID list as it is written on a command line
CommaSeparated(pids) == IF pids = <<"1234">> THEN "1234" ELSE "7,8"

\* the request of the call of this step reached the start routine, with the
\* given flags and target options; without elevation the profiler is started
\* in the call if the output folder is valid
Delegated(elevate, outputPath, flags, target, workingDirectory) ==
    /\ Len(reqs') = Len(reqs) + 1
    /\ LET req == reqs'[Len(reqs')]
       IN  /\ req.perfOptions = flags
           /\ req.recordOptions = target
           /\ req.outputPath = outputPath
           /\ req.workingDirectory = workingDirectory
    /\ ~elevate /\ FolderOk(FolderPath(outputPath))
         => effects'[Len(effects')] =
                ProcessStart("perf", <<"record", "-o", outputPath>> \o flags \o target)

\* C13: the profiler is spawned as perf record -o <outputPath>, then the
\* request's flags in their order, then the target options: --pid and the
\* comma-joined PIDs, or the resolved executable and its arguments, or
\* --all-cpus; a process started later, after the elevation, gets the command
\* line of its request; record(["-F","99"], "/tmp/out.data", false, ["1234"])
\* gives perf record -o /tmp/out.data -F 99 --pid 1234.
C13_CommandLine ==
    [][/\ \A scriptFound, elevate \in BOOLEAN, perfOptions \in PerfOptionLists,
             outputPath \in OutputPaths :
             /\ \A pids \in PidLists \ {<<>>} :
                   RecordPids(scriptFound, perfOptions, outputPath, elevate, pids)
                   /\ (elevate => scriptFound)
                   => Delegated(elevate, outputPath,
                                perfOptions \o <<"--pid", CommaSeparated(pids)>>,
                                <<>>, "")
             /\ \A exeOptions \in ExeOptionLists, wd \in WorkingDirectories :
                   RecordExe(scriptFound, perfOptions, outputPath, elevate, "ls",
                             exeOptions, wd)
                   /\ (elevate => scriptFound)
                   => Delegated(elevate, outputPath, perfOptions,
                                <<"/usr/bin/ls">> \o exeOptions, wd)
             /\ RecordSystem(scriptFound, perfOptions, outputPath) /\ scriptFound
                   => Delegated(TRUE, outputPath, perfOptions \o <<"--all-cpus">>,
                                <<>>, "")
       /\ \A p \in 1..Len(procs') :
             procs'[p].st \in {"Starting", "Running"}
             => LET req == reqs'[procs'[p].req]
                IN  /\ procs'[p].args = <<"record", "-o", req.outputPath>>
                                            \o req.perfOptions \o req.recordOptions
                    /\ procs'[p].wd = req.workingDirectory
       /\ \A scriptFound \in BOOLEAN :
             RecordPids(scriptFound, <<"-F", "99">>, "/tmp/out.data", FALSE, <<"1234">>)
             => CurrentCommandLine' = "perf record -o /tmp/out.data -F 99 --pid 1234"
      ]_vars

\* the profiler of the example request runs
C13_Witness ==
    /\ CurrentCommandLine = "perf record -o /tmp/out.data -F 99 --pid 1234"
    /\ procs[m_perfRecordProcess].st = "Running"

\* a public operation is called in this step with a request for elevation
\* that passes the operation's own checks, and the script is not located
ElevatedCallWithoutScript ==
    \E perfOptions \in PerfOptionLists, outputPath \in OutputPaths :
        \/ RecordSystem(FALSE, perfOptions, outputPath)
        \/ \E pids \in PidLists \ {<<>>} :
              RecordPids(FALSE, perfOptions, outputPath, TRUE, pids)
        \/ \E exeOptions \in ExeOptionLists, wd \in WorkingDirectories :
              RecordExe(FALSE, perfOptions, outputPath, TRUE, "ls", exeOptions, wd)

\* C14: a request for elevation whose script is not located emits, in the
\* call, one failure that names the script, and starts nothing: no request
\* reaches the helper, no file is polled, no process object is created.
C14_ScriptNotFoundFails ==
    [][ElevatedCallWithoutScript
       => /\ Len(effects') = 1
          /\ effects'[1].sig = "recordingFailed"
          /\ Contains(effects'[1].text, "Failed to find")
          /\ Contains(effects'[1].text, "elevate_perf_privileges.sh")
          /\ UNCHANGED <<reqs, procs, m_perfRecordProcess, m_outputPath,
                         m_userTerminated>>
      ]_vars

\* the call failed for the missing script and the session is still empty
C14_Witness ==
    /\ effects = <<Failed("Failed to find elevate_perf_privileges.sh script.")>>
    /\ reqs = <<>>
    /\ procs = <<>>

\* the session has a profiler process that was started and has not ended
ProfilerActive ==
    /\ m_perfRecordProcess # 0
    /\ procs[m_perfRecordProcess].st \in {"Starting", "Running"}

\* C15: perfCommand() is "perf" and the arguments of the current process,
\* separated by blanks, while a profiler process is active, and the empty
\* string whenever none is: before any recording, after a request that
\* failed the validation of its output path, after the profiler has exited.
C15_CurrentCommandLine ==
    IF ProfilerActive
    THEN LET args == procs[m_perfRecordProcess].args
         IN  /\ SubSeq(CurrentCommandLine, 1, 15) = "perf record -o "
             /\ Len(CurrentCommandLine)
                  = 4 + Len(args) + Len(Join(args, ""))
    ELSE CurrentCommandLine = ""

\* C16: the poll that reads a success or error marker stops the polling of
\* the request's file, and once the profiler was started for the request no
\* poll of the file emits or starts anything.
C16_PollingStopsAfterMarker ==
    [][\A r \in Reqs :
          ReadSlot(r)
          => /\ \/ Contains(reqs[r].unread, SuccessMarker)
                \/ Contains(reqs[r].unread, ErrorMarker)
                => reqs'[r].timer = 0
             /\ (\E p \in Procs : procs[p].req = r)
                => effects' = <<>> /\ UNCHANGED procs
      ]_vars

\* C17: when the file of a polled request holds the complete success marker
\* and the polls have read all of the file, the success was detected: the
\* start routine has run for the request.
C17_SplitMarkerDetected ==
    \A r \in Reqs :
        /\ reqs[r].timer # 0
        /\ Contains(reqs[r].content, SuccessMarker)
        /\ reqs[r].unread = ""
        => \E p \in Procs : procs[p].req = r

\* C18: the timer of a request's output file runs only for a request with
\* elevation whose helper has reported progress step 2, after the script
\* process has started, and with an interval of 250 ms; a poll of the file
\* happens only when step 2 has been reported.
C18_PolledOnlyAfterStep2 ==
    [][\A r \in 1..Len(reqs') :
          /\ reqs'[r].timer # 0
             => /\ reqs'[r].timer = 250
                /\ reqs'[r].elevate
                /\ 2 \in reqs'[r].steps
                /\ reqs'[r].script \in {"running", "exited"}
          /\ r \in Reqs /\ ReadSlot(r) => 2 \in reqs[r].steps
      ]_vars

\* the file of a request was polled: what the script wrote has been read
C18_Witness ==
    \E r \in Reqs :
        /\ reqs[r].timer = 250
        /\ reqs[r].content # ""
        /\ reqs[r].unread = ""

\* C19: progress step 1 is reported only for an error of the script (failed
\* start, crash) that occurs before the watchdog fires, and step 2 only when
\* the script process has started; the end of the script after the
\* watchdog's terminate() reports no step and emits no failure.
C19_WatchdogDisarms ==
    [][\A r \in Reqs :
          /\ 1 \in reqs'[r].steps /\ 1 \notin reqs[r].steps
             => /\ ~reqs[r].watchdog
                /\ \/ reqs[r].script = "starting" /\ reqs'[r].script = "failed"
                   \/ reqs[r].script = "running" /\ reqs'[r].script = "exited"
          /\ 2 \in reqs'[r].steps /\ 2 \notin reqs[r].steps
             => reqs[r].script = "starting" /\ reqs'[r].script = "running"
          /\ reqs[r].watchdog
             => /\ reqs'[r].steps \subseteq reqs[r].steps \cup {2}
                /\ reqs'[r].script # reqs[r].script
                   => ~HasEffect(effects', "recordingFailed")
      ]_vars

\* the watchdog has ended the script, and no step 1 was reported
C19_Witness ==
    \E r \in Reqs :
        /\ reqs[r].watchdog
        /\ reqs[r].script = "exited"
        /\ reqs[r].steps = {2}

\* the finished and failed events of a handler's trace
TerminalEvents(trace) ==
    SelectSeq(trace, LAMBDA e : e.sig \in {"recordingFinished", "recordingFailed"})

\* C20: the end of the session's profiler process - its failed start, or
\* its exit, crash or termination - is reported by exactly one event,
\* finished or failed.
C20_OneTerminalEvent ==
    [][\A p \in Procs :
          /\ p = m_perfRecordProcess
          /\ \/ ProcStartup(p, FALSE)
             \/ \E outcome \in ExitOutcomes : ProcFinished(p, outcome)
          => Len(TerminalEvents(effects')) = 1
      ]_vars

\* C21: whenever a profiler process is started the user-stop flag is unset,
\* so that a stop requested before the recording can neither suppress the
\* failure of the new process nor turn its death by SIGTERM into a success.
C21_FlagNeverLeaks ==
    [][HasEffect(effects', "QProcess::start") => ~m_userTerminated']_vars

\* the events a handler's trace emits to the session's listeners
SessionEvents(trace) ==
    SelectSeq(trace, LAMBDA e : e.sig \in {"recordingFinished", "recordingFailed",
                                           "recordingOutput"})

\* an event of process object p is handled in this step: its startup
\* notification, its output, or its end
ProcessEvent(p) ==
    \/ \E ok \in BOOLEAN : ProcStartup(p, ok)
    \/ ProcReadyRead(p)
    \/ \E outcome \in ExitOutcomes \cup {KillOutcome} : Exited(p, outcome)

\* C22: an event of a process that a later request has replaced emits no
\* session event, and a finished event that the end of a process emits
\* carries the output path that process was started with.
C22_ReplacedProcessIsSilent ==
    [][\A p \in Procs :
          ProcessEvent(p)
          => /\ p # m_perfRecordProcess => SessionEvents(effects') = <<>>
             /\ \A i \in 1..Len(effects') :
                   effects'[i].sig = "recordingFinished"
                   => effects'[i].text = reqs[procs[p].req].outputPath
      ]_vars

====
